---- MODULE Spec2Model ----
(***************************************************************************)
(* A model of the two classes of the repository:                           *)
(*   Debug (the debug-parameter binder over the dat.gui panel) and         *)
(*   Lego  (the scene composer with its requestAnimationFrame loop).       *)
(* The two classes share no state; each has a specification of its own     *)
(* (DebugSpec, LegoSpec, LegoFairSpec).                                     *)
(***************************************************************************)
EXTENDS Integers, Sequences, FiniteSets, TLC

(***************************************************************************)
(* Bounds of the model.                                                    *)
(***************************************************************************)
MaxAdds == 2
MaxWrites == 1
MaxRenders == 2
MaxDebugCalls == 1

(***************************************************************************)
(* JavaScript values.  A value is a number, a reference to an object of    *)
(* the heap, NaN, or undefined.                                            *)
(***************************************************************************)
Num(n) == [t |-> "number", n |-> n]
Ref(i) == [t |-> "object", n |-> i]
NaN == [t |-> "NaN", n |-> 0]
Undefined == [t |-> "undefined", n |-> 0]

\* Unary minus: -options[key].  A plain object converts to NaN.
JsNeg(v) == IF v.t = "number" THEN Num(0 - v.n) ELSE NaN

\* v * this.multiple, the multiple being a number.
JsMul(v, m) == IF v.t = "number" THEN Num(v.n * m) ELSE NaN

(***************************************************************************)
(* Objects are ordered property lists (for-in visits string keys in        *)
(* insertion order).  The heap is the sequence of all objects allocated;   *)
(* an object's identity is its index.                                      *)
(***************************************************************************)
Prop(k, v) == [key |-> k, val |-> v]

Keys(o) == {o[i].key : i \in 1..Len(o)}

Get(o, k) ==
  IF k \in Keys(o)
  THEN LET i == CHOOSE i \in 1..Len(o) : o[i].key = k IN o[i].val
  ELSE Undefined

Put(o, k, v) == [i \in 1..Len(o) |-> IF o[i].key = k THEN Prop(k, v) ELSE o[i]]

\* The color value {r: 1, g: 1, b: 1} of the caller's literal.
WhiteColor == <<Prop("r", Num(1)), Prop("g", Num(1)), Prop("b", Num(1))>>

(***************************************************************************)
(* Inputs.  The multiples a Debug is constructed with, the group names,    *)
(* and the option literals a caller passes: a literal is a property list   *)
(* whose object-valued field (at most one) is a fresh color object,        *)
(* written Ref(0) here.                                                    *)
(***************************************************************************)
DefaultMultiple == 3

Multiples == {0, DefaultMultiple}

Names == {"Light", "Fog"}

Literals ==
  { <<>>,
    <<Prop("intensity", Num(2)), Prop("offset", Num(-2)), Prop("near", Num(0))>>,
    <<Prop("intensity", Num(2)), Prop("color", Ref(0))>>,
    <<Prop("color", Num(1))>>,
    <<Prop("intensity", Num(2)), Prop("tint", Ref(0)), Prop("near", Num(1))>> }

EditNums == {5}

VARIABLES
  webgl,        \* the environment: WEBGL.isWebGLAvailable()
  el,           \* the el given to the constructor: "null", "div" or "canvas"
  status,       \* "new" before the constructor ran, then "ok" or "failed"
  error,        \* the error the constructor threw: "none", "mount", "webgl"
  parts,        \* the fields the constructor has set, in order
  elChildren,   \* what was appended to el
  renderOptions,\* the module's renderOptions, which merge writes into
  sceneChildren,\* the objects render added to the scene
  grids,        \* the calls of helper.addGrid
  interactions, \* the click handlers registered
  debugList,    \* this.debugList
  pending,      \* frame callbacks requested for the next frame
  running,      \* frame callbacks of the current frame, not yet run
  lastKind,     \* the callback that ran last: "none", "animate", "debugAnimate"
  lastTick,     \* the calls it made, in order
  parity,       \* flips at every tick of animate
  frameDone,    \* the last callback of a frame has just run
  frameRenders, \* renderer.render calls in the current frame
  cbRuns,       \* runs of each callback of debugList in the current frame
  nRenders,     \* history: calls of render()
  nDebugs       \* history: calls of debug()

legoVars ==
  <<webgl, el, status, error, parts, elChildren, renderOptions, sceneChildren, grids,
    interactions, debugList, pending, running, lastKind, lastTick, parity, frameDone,
    frameRenders, cbRuns, nRenders, nDebugs>>

VARIABLES
  heap,       \* all objects: option mappings, their clones, color values
  gui,        \* Debug.gui: the folders of the one panel, in creation order
  debugs,     \* the Debug instances constructed, each known by its multiple
  calls,      \* history: one record per call of add
  originals,  \* history: the caller's own option objects (ids)
  nWrites     \* history: the number of edits made so far

debugVars == <<heap, gui, debugs, calls, originals, nWrites>>

(***************************************************************************)
(* The caller's literal { ... }: allocates the nested color object, if     *)
(* any, and then the mapping itself.                                       *)
(***************************************************************************)
HasObject(lit) == \E i \in 1..Len(lit) : lit[i].val.t = "object"

NewLiteral(h, lit) ==
  IF HasObject(lit)
  THEN LET c == Len(h) + 1
           o == [i \in 1..Len(lit) |->
                   IF lit[i].val.t = "object" THEN Prop(lit[i].key, Ref(c)) ELSE lit[i]]
       IN [heap |-> h \o <<WhiteColor, o>>, id |-> c + 1]
  ELSE [heap |-> Append(h, lit), id |-> Len(h) + 1]

(***************************************************************************)
(* lodash clone: a new object with the same own properties and the same    *)
(* values; an object-valued property is shared, not copied.                *)
(***************************************************************************)
\* A copy that loses the last property.
cloneDropLast(h, id) ==
  [heap |-> Append(h, IF h[id] = <<>> THEN <<>> ELSE SubSeq(h[id], 1, Len(h[id]) - 1)),
   id |-> Len(h) + 1]

\* No copy at all: the input itself is bound and returned.
cloneAlias(h, id) == [heap |-> h, id |-> id]

clone(h, id) == [heap |-> Append(h, h[id]), id |-> Len(h) + 1]

(***************************************************************************)
(* dat.gui (0.7.x), as Debug.add uses it.                                  *)
(*  addFolder(name): throws when the panel has a folder of that name.      *)
(*  folder.addColor(object, key): a color controller.                      *)
(*  folder.add(object, key, min, max): the controller factory gives a      *)
(*  slider for a number with numeric min and max, a number box for a       *)
(*  number otherwise, and no controller for an object value, on which add  *)
(*  throws.                                                                *)
(***************************************************************************)
FolderNames(g) == {g[i].name : i \in 1..Len(g)}

\* No check of the name: a folder is always appended.
addFolderNoCheck(g, name) ==
  [threw |-> FALSE, gui |-> Append(g, [name |-> name, controls |-> <<>>])]

\* A panel of its own per call: the new folder replaces the others.
addFolderReplace(g, name) ==
  [threw |-> FALSE, gui |-> <<[name |-> name, controls |-> <<>>]>>]

addFolder(g, name) ==
  IF name \in FolderNames(g)
  THEN [threw |-> TRUE, gui |-> g]
  ELSE [threw |-> FALSE, gui |-> Append(g, [name |-> name, controls |-> <<>>])]

addColor(obj, key) ==
  [kind |-> "color", object |-> obj, property |-> key, min |-> Undefined, max |-> Undefined]

\* A factory that refuses the numbers that give a degenerate range.
ControllerFactoryPositiveOnly(v, min, max) ==
  IF v.t = "number" /\ v.n > 0 THEN "slider" ELSE "null"

ControllerFactory(v, min, max) ==
  IF v.t = "number"
  THEN IF min.t = "number" /\ max.t = "number" THEN "slider" ELSE "box"
  ELSE "null"

folderAdd(v, obj, key, min, max) ==
  [kind |-> ControllerFactory(v, min, max), object |-> obj, property |-> key,
   min |-> min, max |-> max]

(***************************************************************************)
(* Debug.add, lines 18-29: the loop over the clone's fields.  It stops at  *)
(* the first field on which folder.add throws.                             *)
(***************************************************************************)
\* The minus sign forgotten.
SliderMinNoNeg(v, m) == JsMul(v, m)

SliderMin(v, m) == JsMul(JsNeg(v), m)

SliderMax(v, m) == JsMul(v, m)

\* The test of the field name widened to every color-valued name.
ControlColorLike(o, obj, key, m) ==
  IF key \in {"color", "tint"}
  THEN addColor(obj, key)
  ELSE folderAdd(Get(o, key), obj, key, SliderMin(Get(o, key), m), SliderMax(Get(o, key), m))

Control(o, obj, key, m) ==
  IF key = "color"
  THEN addColor(obj, key)
  ELSE folderAdd(Get(o, key), obj, key, SliderMin(Get(o, key), m), SliderMax(Get(o, key), m))

RECURSIVE addControls(_, _, _, _, _)
addControls(o, obj, i, m, acc) ==
  IF i > Len(o)
  THEN [controls |-> acc, threw |-> FALSE]
  ELSE LET c == Control(o, obj, o[i].key, m) IN
       IF c.kind = "null"
       THEN [controls |-> acc, threw |-> TRUE]
       ELSE addControls(o, obj, i + 1, m, Append(acc, c))

(***************************************************************************)
(* Debug.add(name, options) on a Debug of multiple m, options being the    *)
(* object id: the new heap and panel, whether it threw, and the clone it   *)
(* returns (0 when it threw).                                              *)
(***************************************************************************)
add(h, g, m, name, id) ==
  LET cl == clone(h, id)
      fo == addFolder(g, name)
  IN IF fo.threw
     THEN [heap |-> cl.heap, gui |-> g, threw |-> TRUE, folder |-> 0, result |-> 0]
     ELSE LET f == Len(fo.gui)
              cs == addControls(cl.heap[cl.id], cl.id, 1, m, <<>>)
          IN [heap |-> cl.heap,
              gui |-> [fo.gui EXCEPT ![f].controls = cs.controls],
              threw |-> cs.threw,
              folder |-> f,
              result |-> IF cs.threw THEN 0 ELSE cl.id]

\* An object's properties with the contents of the objects they refer to.
Deep(h, id) ==
  [i \in 1..Len(h[id]) |->
     IF h[id][i].val.t = "object" THEN Prop(h[id][i].key, h[h[id][i].val.n]) ELSE h[id][i]]

\* The record of one call: what it was given (the input as it was at the
\* call) and what came of it.
Call(d, name, id, h, r) ==
  [multiple |-> d, name |-> name, input |-> id,
   given |-> h[id], givenDeep |-> Deep(h, id),
   threw |-> r.threw, folder |-> r.folder, result |-> r.result,
   out |-> IF r.threw THEN <<>> ELSE r.heap[r.result]]

(***************************************************************************)
(* Actions of Debug.                                                       *)
(***************************************************************************)
DebugInit ==
  /\ heap = <<>>
  /\ gui = <<>>
  /\ debugs = {}
  /\ calls = <<>>
  /\ originals = {}
  /\ nWrites = 0

\* new Debug(multiple), lines 11-13.
NewDebug(m) ==
  /\ debugs' = debugs \cup {m}
  /\ UNCHANGED <<heap, gui, calls, originals, nWrites, legoVars>>

\* debug.add(name, { ... }) with a literal of the caller.
AddLiteral(d, name, lit) ==
  /\ Len(calls) < MaxAdds
  /\ LET nl == NewLiteral(heap, lit)
         r == add(nl.heap, gui, d, name, nl.id)
     IN /\ heap' = r.heap
        /\ gui' = r.gui
        /\ calls' = Append(calls, Call(d, name, nl.id, nl.heap, r))
        /\ originals' = originals \cup {nl.id}
  /\ UNCHANGED <<debugs, nWrites, legoVars>>

\* debug.add(name, options) with an options object the caller passed before.
AddAgain(d, name, id) ==
  /\ Len(calls) < MaxAdds
  /\ LET r == add(heap, gui, d, name, id)
     IN /\ heap' = r.heap
        /\ gui' = r.gui
        /\ calls' = Append(calls, Call(d, name, id, heap, r))
  /\ UNCHANGED <<debugs, originals, nWrites, legoVars>>

(***************************************************************************)
(* Edits after add.  The panel writes through the controller bound to a    *)
(* field of the clone: a slider writes the number entered; a color         *)
(* controller writes a value of the shape it was given (a number for a     *)
(* number, a new {r, g, b} object for an object).  The caller holds the    *)
(* returned clone and may assign a field of it, or a component of the      *)
(* object its color field refers to.                                       *)
(***************************************************************************)
Returned == {calls[i].result : i \in 1..Len(calls)} \ {0}

PanelSlider(f, c, n) ==
  /\ nWrites < MaxWrites
  /\ gui[f].controls[c].kind = "slider"
  /\ LET k == gui[f].controls[c] IN
       heap' = [heap EXCEPT ![k.object] = Put(@, k.property, Num(n))]
  /\ nWrites' = nWrites + 1
  /\ UNCHANGED <<gui, debugs, calls, originals, legoVars>>

PanelColor(f, c, n) ==
  /\ nWrites < MaxWrites
  /\ gui[f].controls[c].kind = "color"
  /\ LET k == gui[f].controls[c]
         v == Get(heap[k.object], k.property)
     IN IF v.t = "object"
        THEN heap' = Append([heap EXCEPT ![k.object] = Put(@, k.property, Ref(Len(heap) + 1))],
                            Put(heap[v.n], "r", Num(n)))
        ELSE heap' = [heap EXCEPT ![k.object] = Put(@, k.property, Num(n))]
  /\ nWrites' = nWrites + 1
  /\ UNCHANGED <<gui, debugs, calls, originals, legoVars>>

\* clone[key] = n
CallerWrite(id, key, n) ==
  /\ nWrites < MaxWrites
  /\ key \in Keys(heap[id])
  /\ heap' = [heap EXCEPT ![id] = Put(@, key, Num(n))]
  /\ nWrites' = nWrites + 1
  /\ UNCHANGED <<gui, debugs, calls, originals, legoVars>>

\* clone[key].r = n
CallerWriteNested(id, key, n) ==
  /\ nWrites < MaxWrites
  /\ Get(heap[id], key).t = "object"
  /\ heap' = [heap EXCEPT ![Get(heap[id], key).n] = Put(@, "r", Num(n))]
  /\ nWrites' = nWrites + 1
  /\ UNCHANGED <<gui, debugs, calls, originals, legoVars>>

AllKeys == {"intensity", "offset", "near", "color", "tint"}

DebugNext ==
  \/ \E m \in Multiples : NewDebug(m)
  \/ \E d \in debugs, name \in Names, lit \in Literals : AddLiteral(d, name, lit)
  \/ \E d \in debugs, name \in Names, id \in originals : AddAgain(d, name, id)
  \/ \E f \in 1..Len(gui) : \E c \in 1..Len(gui[f].controls), n \in EditNums : PanelSlider(f, c, n)
  \/ \E f \in 1..Len(gui) : \E c \in 1..Len(gui[f].controls), n \in EditNums : PanelColor(f, c, n)
  \/ \E id \in Returned, key \in AllKeys, n \in EditNums : CallerWrite(id, key, n)
  \/ \E id \in Returned, key \in AllKeys, n \in EditNums : CallerWriteNested(id, key, n)

(***************************************************************************)
(* Lego.                                                                   *)
(***************************************************************************)
AllParts == <<"el", "scene", "camera", "ambientLight", "directionalLight", "renderer", "control">>

\* compatibilityCheck(el), lines 133-141: the warning is appended to el
\* when WebGL is not available.
compatibilityCheck(w, children) ==
  IF w THEN [ok |-> TRUE, children |-> children]
  ELSE [ok |-> FALSE, children |-> Append(children, "warning")]

\* The two checks made in the other order.
constructWebglFirst(e, w, children) ==
  LET cc == compatibilityCheck(w, children) IN
  IF ~cc.ok
  THEN [status |-> "failed", error |-> "webgl", parts |-> <<>>, children |-> cc.children]
  ELSE IF e /= "div"
       THEN [status |-> "failed", error |-> "mount", parts |-> <<>>, children |-> children]
       ELSE [status |-> "ok", error |-> "none", parts |-> AllParts, children |-> cc.children]

\* The constructor, lines 61-91.  el.toString() is "[object HTMLDivElement]"
\* for a div only.
construct(e, w, children) ==
  IF e = "null" \/ e /= "div"
  THEN [status |-> "failed", error |-> "mount", parts |-> <<>>, children |-> children]
  ELSE LET cc == compatibilityCheck(w, children) IN
       IF ~cc.ok
       THEN [status |-> "failed", error |-> "webgl", parts |-> <<>>, children |-> cc.children]
       ELSE [status |-> "ok", error |-> "none", parts |-> AllParts, children |-> cc.children]

\* lodash merge(renderOptions, options) on the helper options: a field the
\* source has replaces the destination's, in the destination itself.
mergeField(dst, src) == IF src = "absent" THEN dst ELSE src

merge(dst, src) ==
  [grid |-> mergeField(dst.grid, src.grid), stats |-> mergeField(dst.stats, src.stats)]

HelperOptions == [grid : {"absent", "on", "off"}, stats : {"absent", "number", "off"}]

Ev(op, n) == [op |-> op, n |-> n]

Count(events, op) == Cardinality({i \in 1..Len(events) : events[i].op = op})

\* animate with the render made before the control update.
animateRenderFirst(dl) ==
  [i \in 1..Len(dl) |-> Ev("debug", dl[i])]
    \o <<Ev("render", 0), Ev("update", 0), Ev("raf", 0)>>

\* animate, lines 185-190: the calls one tick makes.
animate(dl) ==
  [i \in 1..Len(dl) |-> Ev("debug", dl[i])]
    \o <<Ev("update", 0), Ev("render", 0), Ev("raf", 0)>>

\* The animate of debug(), lines 198-203.
debugAnimate == <<Ev("render", 0), Ev("update", 0), Ev("stats", 0), Ev("raf", 0)>>

\* requestAnimationFrame(callback), once per raf call of the tick.
Requested(events, callback) == [i \in 1..Count(events, "raf") |-> callback]

\* The runs of each debug callback that a tick adds.
Ran(runs, events) ==
  [i \in 1..Len(runs) |->
     runs[i] + Cardinality({j \in 1..Len(events) : events[j] = Ev("debug", i)})]

\* The state before new Lego(...), in an environment with or without WebGL
\* and with the helper options the configuration module gives.
LegoStart(w, ro) ==
  /\ webgl = w
  /\ el = "null"
  /\ status = "new"
  /\ error = "none"
  /\ parts = <<>>
  /\ elChildren = <<>>
  /\ renderOptions = ro
  /\ sceneChildren = {}
  /\ grids = 0
  /\ interactions = 0
  /\ debugList = <<>>
  /\ pending = <<>>
  /\ running = <<>>
  /\ lastKind = "none"
  /\ lastTick = <<>>
  /\ parity = 0
  /\ frameDone = FALSE
  /\ frameRenders = 0
  /\ cbRuns = <<>>
  /\ nRenders = 0
  /\ nDebugs = 0

LegoInit ==
  \E w \in BOOLEAN, ro \in [grid : {"on", "off"}, stats : {"number", "off"}] : LegoStart(w, ro)

\* new Lego({ el, ... })
LegoConstruct(e) ==
  /\ status = "new"
  /\ LET r == construct(e, webgl, elChildren) IN
       /\ status' = r.status
       /\ error' = r.error
       /\ parts' = r.parts
       /\ elChildren' = r.children
  /\ el' = e
  /\ UNCHANGED <<webgl, renderOptions, sceneChildren, grids, interactions, debugList,
                 pending, running, lastKind, lastTick, parity, frameDone, frameRenders,
                 cbRuns, nRenders, nDebugs, debugVars>>

\* render(options), lines 171-180, with initHelper (120-127) and the first
\* call of animate.
LegoRender(options) ==
  /\ status = "ok"
  /\ running = <<>>
  /\ nRenders < MaxRenders
  /\ LET helper == merge(renderOptions, options)
         dl == IF helper.stats = "number"
               THEN Append(debugList, Len(debugList) + 1) ELSE debugList
         tick == animate(dl)
     IN /\ sceneChildren' = sceneChildren \cup {"Model.group", "ambientLight", "directionalLight"}
        /\ renderOptions' = helper
        /\ grids' = IF helper.grid = "on" THEN grids + 1 ELSE grids
        /\ debugList' = dl
        /\ cbRuns' = IF helper.stats = "number" THEN Append(cbRuns, 0) ELSE cbRuns
        /\ lastTick' = tick
        /\ pending' = pending \o Requested(tick, "animate")
  /\ interactions' = interactions + 1
  /\ lastKind' = "animate"
  /\ parity' = 1 - parity
  /\ frameDone' = FALSE
  /\ nRenders' = nRenders + 1
  /\ UNCHANGED <<webgl, el, status, error, parts, elChildren, running, frameRenders, nDebugs, debugVars>>

\* debug(), lines 192-205, with the first call of its animate.
LegoDebug ==
  /\ status = "ok"
  /\ running = <<>>
  /\ nDebugs < MaxDebugCalls
  /\ elChildren' = Append(elChildren, "stats.dom")
  /\ lastTick' = debugAnimate
  /\ lastKind' = "debugAnimate"
  /\ pending' = pending \o Requested(debugAnimate, "debugAnimate")
  /\ frameDone' = FALSE
  /\ nDebugs' = nDebugs + 1
  /\ UNCHANGED <<webgl, el, status, error, parts, renderOptions, sceneChildren, grids,
                 interactions, debugList, running, parity, frameRenders, cbRuns, nRenders,
                 debugVars>>

\* The browser starts a frame: the callbacks requested so far are the ones
\* it will run.
FrameBegin ==
  /\ running = <<>>
  /\ pending /= <<>>
  /\ running' = pending
  /\ pending' = <<>>
  /\ frameDone' = FALSE
  /\ frameRenders' = 0
  /\ cbRuns' = [i \in 1..Len(cbRuns) |-> 0]
  /\ UNCHANGED <<webgl, el, status, error, parts, elChildren, renderOptions, sceneChildren,
                 grids, interactions, debugList, lastKind, lastTick, parity, nRenders, nDebugs,
                 debugVars>>

\* The browser runs the next callback of the frame.
FrameCallback ==
  /\ running /= <<>>
  /\ LET tick == IF Head(running) = "animate" THEN animate(debugList) ELSE debugAnimate
     IN /\ lastTick' = tick
        /\ pending' = pending \o Requested(tick, Head(running))
        /\ frameRenders' = frameRenders + Count(tick, "render")
        /\ cbRuns' = Ran(cbRuns, tick)
  /\ lastKind' = Head(running)
  /\ parity' = IF Head(running) = "animate" THEN 1 - parity ELSE parity
  /\ running' = Tail(running)
  /\ frameDone' = (Tail(running) = <<>>)
  /\ UNCHANGED <<webgl, el, status, error, parts, elChildren, renderOptions, sceneChildren,
                 grids, interactions, debugList, nRenders, nDebugs, debugVars>>

LegoNext ==
  \/ \E e \in {"null", "div", "canvas"} : LegoConstruct(e)
  \/ \E options \in HelperOptions : LegoRender(options)
  \/ LegoDebug
  \/ FrameBegin
  \/ FrameCallback

(***************************************************************************)
(* The specifications.  The two classes share no state: DebugSpec runs     *)
(* Debug with no Lego constructed, LegoSpec runs Lego with no Debug.       *)
(***************************************************************************)
vars == <<legoVars, debugVars>>

DebugSpecInit == DebugInit /\ LegoStart(TRUE, [grid |-> "off", stats |-> "off"])

DebugSpec == DebugSpecInit /\ [][DebugNext]_vars

LegoSpecInit == LegoInit /\ DebugInit

LegoSpec == LegoSpecInit /\ [][LegoNext]_vars

\* The browser goes on running frames.
LegoFairSpec == LegoSpec /\ WF_vars(FrameBegin) /\ WF_vars(FrameCallback)

(***************************************************************************)
(* Properties of Lego.                                                     *)
(***************************************************************************)
\* C8: the constructor fails with the mount-element error when el is absent
\* or not a div, whatever the WebGL support, and with the WebGL error when el
\* is a div and WebGL is unavailable; in both cases no scene, camera, light,
\* renderer or control is created and no frame loop is started. It completes
\* only when both checks pass.
C8_ConstructorErrors ==
  /\ status = "new" => (error = "none" /\ parts = <<>>)
  /\ status /= "new" =>
       /\ el /= "div" => (status = "failed" /\ error = "mount")
       /\ (el = "div" /\ ~webgl) => (status = "failed" /\ error = "webgl")
       /\ (el = "div" /\ webgl) => (status = "ok" /\ error = "none" /\ parts = AllParts)
  /\ status = "failed" =>
       /\ parts = <<>>
       /\ sceneChildren = {}
       /\ pending = <<>> /\ running = <<>> /\ lastKind = "none"

C8_Witness ==
  /\ status = "failed"
  /\ error = "mount"
  /\ el = "canvas"
  /\ ~webgl

\* The calls of a tick of animate: every callback of debugList once, in the
\* order of registration, then one control update, then one render, then one
\* request of the next frame.
TickInOrder ==
  lastKind = "animate" =>
    /\ Count(lastTick, "update") = 1
    /\ Count(lastTick, "render") = 1
    /\ Count(lastTick, "raf") = 1
    /\ \A i \in 1..Len(debugList) :
         Cardinality({j \in 1..Len(lastTick) : lastTick[j] = Ev("debug", debugList[i])}) = 1
    /\ Count(lastTick, "debug") = Len(debugList)
    /\ \A j \in 1..Len(lastTick) : \A k \in 1..Len(lastTick) :
         /\ (lastTick[j].op = "debug" /\ lastTick[k].op = "debug" /\ j < k) =>
               lastTick[j].n < lastTick[k].n
         /\ (lastTick[j].op = "debug" /\ lastTick[k].op = "update") => j < k
         /\ (lastTick[j].op \in {"debug", "update"} /\ lastTick[k].op = "render") => j < k
         /\ lastTick[k].op = "raf" => k = Len(lastTick)

\* Every loop render() started has exactly one callback outstanding.
LoopsOutstanding ==
  Cardinality({i \in 1..Len(pending) : pending[i] = "animate"})
    + Cardinality({i \in 1..Len(running) : running[i] = "animate"}) = nRenders

\* C9: every tick of the loop render() starts makes, in this order, the
\* calls of all callbacks of debugList (each once, in registration order),
\* one control update, one renderer.render call and one request of the next
\* tick; and every tick is followed by another one.
C9_TickOrderAndRecurrence ==
  /\ [](TickInOrder /\ LoopsOutstanding)
  /\ [](nRenders > 0 => <>(parity = 0))
  /\ [](nRenders > 0 => <>(parity = 1))

C9_Witness ==
  /\ lastKind = "animate"
  /\ frameDone
  /\ Len(debugList) = 2
  /\ Len(lastTick) = 5

\* C10: after any calls of render() and debug() one frame loop is running:
\* between frames at most one callback is pending, and a frame makes one
\* renderer.render call and runs each debug callback once.
C10_SingleLoop ==
  /\ running = <<>> => Len(pending) <= 1
  /\ frameDone =>
       /\ frameRenders = 1
       /\ \A i \in 1..Len(cbRuns) : cbRuns[i] = 1

(***************************************************************************)
(* Properties of Debug.                                                    *)
(***************************************************************************)
CallIds == 1..Len(calls)

Controls(i) == IF calls[i].folder = 0 THEN <<>> ELSE gui[calls[i].folder].controls

\* The first field on which folder.add throws (0 when there is none).
FirstBad(o) ==
  IF \E j \in 1..Len(o) : o[j].key /= "color" /\ o[j].val.t = "object"
  THEN CHOOSE j \in 1..Len(o) :
         /\ o[j].key /= "color" /\ o[j].val.t = "object"
         /\ \A k \in 1..(j - 1) : ~(o[k].key /= "color" /\ o[k].val.t = "object")
  ELSE 0

NameUsedBefore(j) == \E i \in 1..(j - 1) : calls[i].name = calls[j].name

C2_OriginalDeeplyUnchanged ==
  \A i \in CallIds :
    /\ ~calls[i].threw => calls[i].result /= calls[i].input
    /\ Deep(heap, calls[i].input) = calls[i].givenDeep

\* C2 (amended): the returned mapping is another object than the input, and
\* neither add nor any later edit of the clone changes a field of the input:
\* each field keeps its number or keeps referring to the same color object.
C2_OriginalFieldsUnchanged ==
  \A i \in CallIds :
    /\ ~calls[i].threw => calls[i].result /= calls[i].input
    /\ heap[calls[i].input] = calls[i].given

C2_Witness ==
  \E i \in CallIds :
    /\ ~calls[i].threw
    /\ nWrites > 0
    /\ Get(heap[calls[i].result], "color").t = "object"
    /\ Get(heap[calls[i].result], "color") /= Get(heap[calls[i].input], "color")
    /\ heap[calls[i].input] = calls[i].given

\* The bounds of every slider are -v*m and v*m, v the field's value at the
\* call and m the multiple, in every state from the call on.
SliderBoundsExact(i) ==
  \A c \in 1..Len(Controls(i)) :
    LET k == Controls(i)[c]
        v == Get(calls[i].given, k.property)
    IN k.property /= "color" =>
         /\ k.min = Num(0 - v.n * calls[i].multiple)
         /\ k.max = Num(v.n * calls[i].multiple)

SliderBoundsOrdered(i) ==
  \A c \in 1..Len(Controls(i)) :
    LET k == Controls(i)[c]
        v == Get(calls[i].given, k.property)
    IN k.property /= "color" =>
         /\ v.n > 0 => k.min.n < k.max.n
         /\ v.n < 0 => k.min.n > k.max.n
         /\ v.n = 0 => (k.min.n = 0 /\ k.max.n = 0)

ControlMatchesField(i, j) ==
  LET k == Controls(i)[j]
      f == calls[i].given[j]
  IN /\ k.property = f.key
     /\ f.key = "color" => (k.kind = "color" /\ k.min = Undefined /\ k.max = Undefined)
     /\ f.key /= "color" => (k.kind = "slider" /\ k.min.t = "number" /\ k.max.t = "number")

PanelEditsOwnClone ==
  \A f \in 1..Len(gui) : \A c \in 1..Len(gui[f].controls) : \A n \in EditNums :
    (PanelSlider(f, c, n) \/ PanelColor(f, c, n)) =>
      \A id \in 1..Len(heap) : id /= gui[f].controls[c].object => heap'[id] = heap[id]

GroupsOnlyGrow ==
  /\ Len(gui') >= Len(gui)
  /\ \A f \in 1..Len(gui) :
       /\ gui'[f].name = gui[f].name
       /\ Len(gui'[f].controls) >= Len(gui[f].controls)

\* C6: every Debug instance, whatever its multiple, registers into the one
\* panel: after calls of add with distinct names the panel holds one group
\* per call, in the order of the calls, and no step removes or empties a
\* group.
C6_GroupsAccumulate ==
  /\ []((\A i \in CallIds : ~NameUsedBefore(i)) =>
          /\ Len(gui) = Len(calls)
          /\ \A i \in CallIds : gui[i].name = calls[i].name /\ calls[i].folder = i)
  /\ [][GroupsOnlyGrow]_vars

C6_Witness ==
  /\ Len(calls) = 2
  /\ calls[1].name /= calls[2].name
  /\ calls[1].multiple /= calls[2].multiple
  /\ Len(gui) = 2
  /\ Len(gui[1].controls) > 0
  /\ nWrites > 0

====
